---- MODULE Spec2Model ----
(***************************************************************************)
(* Model of the marketing agent: the bounded conversation store            *)
(* (src/memory.ts), the tool registry (src/tools.ts, src/mcp.ts), the      *)
(* context fetcher (src/github.ts) and the agent control loop              *)
(* (src/agent.ts).                                                         *)
(*                                                                         *)
(* Nine specifications share the variables:                                *)
(*   MemorySpec  a store driven by arbitrary Memory.add calls              *)
(*   AliasSpec   a caller keeping the array Memory.getAll returned         *)
(*   ToolSpec    executeTool invoked with arbitrary names and arguments    *)
(*   McpSpec     calls of getTypefullyMCP overlapping at connect           *)
(*   Spec        one run of runAgent against nondeterministic collaborators*)
(*   StepSpec    executeStep applied from every phase of AgentState.step   *)
(*   PairSpec    two runs of runAgent interleaved at their awaits          *)
(*   RoleSpec    Memory.add called with every role its type admits         *)
(*   Day2Spec    the Day 2 agent, whose action step classifies the content *)
(***************************************************************************)
EXTENDS Integers, Sequences, FiniteSets, TLC

VARIABLES
    messages,   \* Memory.messages: the conversation store
    added,      \* history: every entry handed to Memory.add, in order
    state,      \* runAgent's `state`: the AgentState record
    pc,         \* where runAgent / executeStep is suspended
    outcome,    \* runAgent's promise: "running", "returned" or "failed"
    error,      \* the error runAgent rejected with (NoError otherwise)
    toolCall,   \* executeStep's `toolCall` (NoToolCall when not bound)
    requests,   \* history: every request sent to the Decision Engine
    responses,  \* history: every response the Decision Engine gave
    fetched,    \* history: how fetchRepoContext ended ("none", "ok", "failed")
    executed,   \* history: every executeTool invocation with its result
    mcpClient,  \* mcp.ts module variable `client`
    env,        \* process.env: which TYPEFULLY_* variables are set
    held,       \* an array obtained from Memory.getAll and kept by the caller
    other,      \* the locals of the runAgent call that is suspended
    mcpLog,     \* history: the clients created and connects made by mcp.ts
    callers,    \* where each call of getTypefullyMCP is
    sessionId   \* runAgent's `sessionId`: the randomUUID() of the run

vars == <<messages, added, state, pc, outcome, error, toolCall, requests,
          responses, fetched, executed, mcpClient, env,
                   held, other, mcpLog, callers, sessionId>>

-----------------------------------------------------------------------------
(* Bounds of the model *)

\* number of Memory.add calls explored by MemorySpec
MaxAdds == 12

\* number of executeTool invocations explored by ToolSpec
MaxInvocations == 2

-----------------------------------------------------------------------------
(* JavaScript values *)

Null == "<null>"
Undefined == "<undefined>"
NoError == "<no error>"

\* a template literal: the literal text and the interpolated values, in order
Tpl(text, parts) == [tpl |-> text, parts |-> parts]
\* a plain string
Lit(text) == Tpl(text, << >>)

-----------------------------------------------------------------------------
(* Conversation entries (ChatCompletionMessageParam) and the store          *)

NoId == ""
NoCalls == << >>

\* { role, content, ...extra }: extra carries tool_calls (assistant entries)
\* or tool_call_id and name (tool entries)
Entry(role, content, tool_calls, tool_call_id, name) ==
    [role |-> role, content |-> content, tool_calls |-> tool_calls,
     tool_call_id |-> tool_call_id, name |-> name]

SystemPrompt ==
    Lit("You are a marketing agent for GitHub repositories. Your job is to analyze repos and create engaging, concise marketing content for developers. Always use the provided tools and keep content under 280 characters.")

\* threshold of the sliding window: the store is trimmed when longer
WindowCap == 11
\* number of most recent entries kept behind entry[0]
WindowTail == 10

\* Array.prototype.slice(-n): the last n elements (all when n >= length)
SliceLast(s, n) ==
    IF Len(s) <= n THEN s ELSE SubSeq(s, Len(s) - n + 1, Len(s))

\* new Memory(systemPrompt)
MemoryNew(systemPrompt) ==
    << Entry("system", systemPrompt, NoCalls, NoId, "") >>

\* mutant of MemoryAdd: the window keeps eleven recent entries behind entry[0]
MemoryAdd_OffByOne(msgs, entry) ==
    LET pushed == Append(msgs, entry)
    IN  IF Len(pushed) > WindowCap
        THEN <<pushed[1]>> \o SliceLast(pushed, WindowTail + 1)
        ELSE pushed

\* mutant of MemoryAdd: the window is cut from the front of the store
MemoryAdd_KeepOldest(msgs, entry) ==
    LET pushed == Append(msgs, entry)
    IN  IF Len(pushed) > WindowCap
        THEN <<pushed[1]>> \o SubSeq(pushed, 2, WindowTail + 1)
        ELSE pushed

\* mutant of MemoryAdd: nothing is ever evicted
MemoryAdd_NoEviction(msgs, entry) == Append(msgs, entry)

\* Memory.add: push, then trim to entry[0] plus the last ten
MemoryAdd(msgs, entry) ==
    LET pushed == Append(msgs, entry)
    IN  IF Len(pushed) > WindowCap
        THEN <<pushed[1]>> \o SliceLast(pushed, WindowTail)
        ELSE pushed

\* Memory.getAll
MemoryGetAll(msgs) == msgs

-----------------------------------------------------------------------------
(* Tool registry: the catalog `tools` and executeTool                       *)

\* one entry of `tools`: name, declared properties with their types, required
Tool(name, properties, required) ==
    [name |-> name, properties |-> properties, required |-> required]

AnalyzeCodebaseTool ==
    Tool("analyze_codebase",
         [readme_excerpt |-> "string", primary_language |-> "string"],
         {"readme_excerpt", "primary_language"})

GenerateChangelogTool ==
    Tool("generate_changelog",
         [commits |-> "array", repo_name |-> "string"],
         {"commits", "repo_name"})

CreateUseCaseTool ==
    Tool("create_use_case",
         [description |-> "string", language |-> "string"],
         {"description", "language"})

CreateTypefullyDraftTool ==
    Tool("create_typefully_draft", [content |-> "string"], {"content"})

\* src/tools.ts as of Day 5
tools ==
    << AnalyzeCodebaseTool, GenerateChangelogTool, CreateUseCaseTool,
       CreateTypefullyDraftTool >>

\* src/tools.ts as of Day 3
toolsDay3 ==
    << AnalyzeCodebaseTool, GenerateChangelogTool, CreateUseCaseTool >>

CatalogNames(catalog) == { catalog[i].name : i \in 1..Len(catalog) }

\* Argument values: a parsed JSON value is null or an object; an object maps
\* each present field to the type of its value
NoFields == [f \in {} |-> "string"]
JsonNull == [isNull |-> TRUE, fields |-> NoFields]
JsonObject(fields) == [isNull |-> FALSE, fields |-> fields]
EmptyObject == JsonObject(NoFields)

HasField(args, f) == f \in DOMAIN args.fields

\* args.f for a non-null args: the value's type, or undefined
Get(args, f) == IF HasField(args, f) THEN args.fields[f] ELSE Undefined

\* results of an async function: a returned value or a thrown error
Return(handler, value, client) ==
    [kind |-> "return", handler |-> handler, value |-> value,
     error |-> NoError, client |-> client]
Throw(handler, err, client) ==
    [kind |-> "throw", handler |-> handler, value |-> Lit(Undefined),
     error |-> err, client |-> client]

NoHandler == "<none>"

\* mutant of GetTypefullyMCP: the API key is not checked
GetTypefullyMCP_NoKeyCheck(client, environment, connectOk) ==
    IF client # Null
    THEN [ok |-> TRUE, client |-> client, error |-> NoError]
    ELSE IF connectOk
    THEN [ok |-> TRUE, client |-> "connected", error |-> NoError]
    ELSE [ok |-> FALSE, client |-> "unconnected", error |-> "connect failed"]

\* mcp.ts getTypefullyMCP: the module variable `client` is null, or a client
\* whose connect has completed ("connected"), or a client that was assigned
\* and whose connect did not complete ("unconnected").
\* Result: [ok, client (the module variable afterwards), error]
GetTypefullyMCP(client, environment, connectOk) ==
    IF client # Null
    THEN [ok |-> TRUE, client |-> client, error |-> NoError]
    ELSE IF ~environment.TYPEFULLY_API_KEY
    THEN [ok |-> FALSE, client |-> client,
          error |-> "TYPEFULLY_API_KEY environment variable is not set"]
    ELSE IF connectOk
    THEN [ok |-> TRUE, client |-> "connected", error |-> NoError]
    ELSE [ok |-> FALSE, client |-> "unconnected", error |-> "connect failed"]

\* the create_typefully_draft branch of executeTool; every error is caught,
\* logged and thrown again
TypefullyHandler(args, client, environment, connectOk, callOk) ==
    LET h == "create_typefully_draft"
        mcp == GetTypefullyMCP(client, environment, connectOk)
    IN  IF ~mcp.ok THEN Throw(h, mcp.error, mcp.client)
        ELSE IF ~environment.TYPEFULLY_SOCIAL_SET_ID
        THEN Throw(h, "TYPEFULLY_SOCIAL_SET_ID environment variable is not set",
                   mcp.client)
        ELSE IF args.isNull
        THEN Throw(h, "TypeError", mcp.client)
        ELSE IF mcp.client # "connected" \/ ~callOk
        THEN Throw(h, "callTool failed", mcp.client)
        ELSE Return(h, Lit("Draft saved to Typefully"), mcp.client)

\* `## Codebase summary: ${args.description}`
AnalyzeCodebaseHandler(args, client) ==
    LET h == "analyze_codebase"
    IN  IF args.isNull THEN Throw(h, "TypeError", client)
        ELSE Return(h, Tpl("## Codebase summary: ${args.description}",
                           << Get(args, "description") >>), client)

\* `## What's New\n\n${args.commits.map(...).join("\n")}`
GenerateChangelogHandler(args, client) ==
    LET h == "generate_changelog"
    IN  IF args.isNull \/ Get(args, "commits") # "array"
        THEN Throw(h, "TypeError", client)
        ELSE Return(h, Tpl("## What's New\n\n${args.commits.map(bullet).join(newline)}",
                           << Get(args, "commits") >>), client)

\* `## Use Case\n\n${args.description}\n\nBuilt with ${args.language}.`
CreateUseCaseHandler(args, client) ==
    LET h == "create_use_case"
    IN  IF args.isNull THEN Throw(h, "TypeError", client)
        ELSE Return(h, Tpl("## Use Case\n\n${args.description}\n\nBuilt with ${args.language}.",
                           << Get(args, "description"), Get(args, "language") >>),
                    client)

\* mutant of UnknownTool: the function ends without throwing
UnknownTool_Silent(name, client) ==
    Return(NoHandler, Lit(Undefined), client)

\* throw new Error(`Unknown tool: ${name}`)
UnknownTool(name, client) ==
    Throw(NoHandler, "Unknown tool: " \o name, client)

\* mutant of ExecuteTool: the branch of the catalog's last tool is missing
ExecuteTool_MissingBranch(name, args, client, environment, connectOk, callOk) ==
    IF name = "analyze_codebase" THEN AnalyzeCodebaseHandler(args, client)
    ELSE IF name = "generate_changelog" THEN GenerateChangelogHandler(args, client)
    ELSE IF name = "create_use_case" THEN CreateUseCaseHandler(args, client)
    ELSE UnknownTool(name, client)

\* executeTool (src/tools.ts as of Day 5)
ExecuteTool(name, args, client, environment, connectOk, callOk) ==
    IF name = "analyze_codebase" THEN AnalyzeCodebaseHandler(args, client)
    ELSE IF name = "generate_changelog" THEN GenerateChangelogHandler(args, client)
    ELSE IF name = "create_use_case" THEN CreateUseCaseHandler(args, client)
    ELSE IF name = "create_typefully_draft"
    THEN TypefullyHandler(args, client, environment, connectOk, callOk)
    ELSE UnknownTool(name, client)

\* executeTool (src/tools.ts as of Day 3)
ExecuteToolDay3(name, args, client) ==
    IF name = "analyze_codebase" THEN AnalyzeCodebaseHandler(args, client)
    ELSE IF name = "generate_changelog" THEN GenerateChangelogHandler(args, client)
    ELSE IF name = "create_use_case" THEN CreateUseCaseHandler(args, client)
    ELSE UnknownTool(name, client)

-----------------------------------------------------------------------------
(* External Context Fetcher: fetchRepoContext (src/github.ts)               *)

\* a text of the repository host, by its name and its length in characters
Text(name, len) == [text |-> name, len |-> len]

\* String.prototype.slice(0, n)
SliceText(t, n) == [text |-> t.text, len |-> IF t.len <= n THEN t.len ELSE n]

\* readme excerpt kept in the snapshot ("Token limit")
ReadmeLimit == 2000
\* readme excerpt quoted in the drafting instruction
PromptReadmeLimit == 200

NoReadme == Text("No README", 9)

NullContext == [isNull |-> TRUE]

\* listCommits({ owner, repo, per_page: 5 })
PerPage == 5

\* the page the host lists for a request of perPage commits: the first
\* perPage of the commits it holds, newest first
ListCommits(hostCommits, perPage) ==
    IF Len(hostCommits) <= perPage THEN hostCommits
    ELSE SubSeq(hostCommits, 1, perPage)

\* What the repository host answers to the three requests of Promise.all:
\* repos.get, repos.getReadme and repos.listCommits (`commits` is what the
\* host holds, of which it lists a page)
HostReplies ==
    [ repoOk : BOOLEAN, readmeOk : BOOLEAN, commitsOk : BOOLEAN,
      readme : { Text("README.md", 2500) },
      commits : { << >>, << "Add X", "Fix Y" >>,
                  << "c1", "c2", "c3", "c4", "c5", "c6" >> },
      language : { "Go", Null } ]

\* mutant of FetchRepoContext: every request has a .catch with a default
FetchRepoContext_CatchAll(reply) ==
    [ok |-> TRUE,
     context |->
       [isNull |-> FALSE,
        readme |-> SliceText(IF reply.readmeOk THEN reply.readme ELSE NoReadme,
                             ReadmeLimit),
        recentCommits |-> IF reply.commitsOk
                          THEN ListCommits(reply.commits, PerPage) ELSE << >>,
        language |-> IF reply.repoOk /\ reply.language # Null THEN reply.language
                     ELSE "Unknown"]]

\* mutant of FetchRepoContext: the readme is kept whole
FetchRepoContext_Unsliced(reply) ==
    IF ~reply.repoOk \/ ~reply.commitsOk
    THEN [ok |-> FALSE, context |-> NullContext]
    ELSE [ok |-> TRUE,
          context |->
            [isNull |-> FALSE,
             readme |-> IF reply.readmeOk THEN reply.readme ELSE NoReadme,
             recentCommits |-> ListCommits(reply.commits, PerPage),
             language |-> IF reply.language = Null THEN "Unknown"
                          ELSE reply.language]]

\* mutant of FetchRepoContext: the README request has no .catch either
FetchRepoContext_NoCatch(reply) ==
    IF ~reply.repoOk \/ ~reply.commitsOk \/ ~reply.readmeOk
    THEN [ok |-> FALSE, context |-> NullContext]
    ELSE [ok |-> TRUE,
          context |->
            [isNull |-> FALSE,
             readme |-> SliceText(reply.readme, ReadmeLimit),
             recentCommits |-> ListCommits(reply.commits, PerPage),
             language |-> IF reply.language = Null THEN "Unknown"
                          ELSE reply.language]]

\* fetchRepoContext: only the README request has a .catch
FetchRepoContext(reply) ==
    IF ~reply.repoOk \/ ~reply.commitsOk
    THEN [ok |-> FALSE, context |-> NullContext]
    ELSE [ok |-> TRUE,
          context |->
            [isNull |-> FALSE,
             readme |-> SliceText(IF reply.readmeOk THEN reply.readme ELSE NoReadme,
                                  ReadmeLimit),
             recentCommits |-> ListCommits(reply.commits, PerPage),
             language |-> IF reply.language = Null THEN "Unknown"
                          ELSE reply.language]]

-----------------------------------------------------------------------------
(* Decision Engine: client.chat.completions.create                          *)

\* one element of message.tool_calls
ToolCallOf(id, type, name, arguments) ==
    [id |-> id, type |-> type, name |-> name, arguments |-> arguments]

NoToolCall == ToolCallOf(NoId, Undefined, Undefined, Undefined)

\* Raw argument payloads the engine may emit
ChangelogPayload == "{\"commits\":[\"Add X\",\"Fix Y\"],\"repo_name\":\"helicone\"}"
AnalyzePayload == "{\"readme_excerpt\":\"A CLI tool\",\"primary_language\":\"Go\"}"
UseCasePayload == "{\"description\":\"A CLI tool\",\"language\":\"Go\"}"
DraftPayload == "{\"content\":\"Shipped X and fixed Y.\"}"
BadCommitsPayload == "{\"commits\":\"Add X\",\"repo_name\":\"helicone\"}"
EmptyPayload == "{}"
NullPayload == "null"
MalformedPayload == "not-json"

Payloads ==
    { ChangelogPayload, AnalyzePayload, UseCasePayload, DraftPayload,
      BadCommitsPayload, EmptyPayload, NullPayload, MalformedPayload }

\* JSON.parse on the payloads above: the parsed value, or a SyntaxError
JSONParse(raw) ==
    CASE raw = ChangelogPayload ->
           [ok |-> TRUE, value |-> JsonObject([commits |-> "array", repo_name |-> "string"])]
      [] raw = AnalyzePayload ->
           [ok |-> TRUE, value |-> JsonObject([readme_excerpt |-> "string",
                                               primary_language |-> "string"])]
      [] raw = UseCasePayload ->
           [ok |-> TRUE, value |-> JsonObject([description |-> "string",
                                               language |-> "string"])]
      [] raw = DraftPayload ->
           [ok |-> TRUE, value |-> JsonObject([content |-> "string"])]
      [] raw = BadCommitsPayload ->
           [ok |-> TRUE, value |-> JsonObject([commits |-> "string", repo_name |-> "string"])]
      [] raw = EmptyPayload -> [ok |-> TRUE, value |-> EmptyObject]
      [] raw = NullPayload -> [ok |-> TRUE, value |-> JsonNull]
      [] OTHER -> [ok |-> FALSE, value |-> JsonNull]

ArgValues == { JSONParse(p).value : p \in Payloads \ {MalformedPayload} }

\* args satisfies the parameter schema of a catalog entry
SchemaValid(tool, args) ==
    /\ ~args.isNull
    /\ \A f \in tool.required : HasField(args, f)
    /\ \A f \in DOMAIN args.fields :
         f \in DOMAIN tool.properties => args.fields[f] = tool.properties[f]

\* Names the engine may ask for: the catalog and one name outside it
RequestedNames == CatalogNames(tools) \cup { "nonexistent_tool" }

FinalText == Lit("Shipped X and fixed Y.")
NullText == Lit(Null)

\* a response: whether choices[0] exists, its message.content and tool_calls
Response(hasChoice, content, tool_calls) ==
    [hasChoice |-> hasChoice, content |-> content, tool_calls |-> tool_calls]

SingleCallResponses ==
    { Response(TRUE, NullText, << ToolCallOf("call_1", "function", n, p) >>) :
        n \in RequestedNames, p \in Payloads }

MultiCallResponses ==
    { Response(TRUE, NullText,
               << ToolCallOf("call_1", "function", "generate_changelog", ChangelogPayload),
                  ToolCallOf("call_2", "function", n, DraftPayload) >>) :
        n \in { "create_typefully_draft", "nonexistent_tool" } }

OtherResponses ==
    { Response(TRUE, FinalText, NoCalls),
      Response(TRUE, NullText, NoCalls),
      Response(FALSE, NullText, NoCalls),
      Response(TRUE, NullText, << ToolCallOf("call_1", "custom", "generate_changelog",
                                             ChangelogPayload) >>) }

Responses == SingleCallResponses \cup MultiCallResponses \cup OtherResponses

\* a request: the messages sent, whether `tools` is sent, and tool_choice
\* a create call: its body and the Helicone-Session-Id header of its options
\* (Undefined when the call is given no options)
Request(msgs, withTools, tool_choice, session) ==
    [messages |-> msgs, tools |-> withTools, tool_choice |-> tool_choice,
     session |-> session]

-----------------------------------------------------------------------------
(* Agent control loop: runAgent and executeStep (src/agent.ts)              *)

Steps == { "thought", "action", "observation", "done" }

\* repoFullName.split("/") for the identifiers explored
Split(repoFullName) ==
    CASE repoFullName = "helicone/helicone" -> << "helicone", "helicone" >>
      [] repoFullName = "helicone" -> << "helicone" >>
      [] OTHER -> << repoFullName >>

RepoInputs == { "helicone/helicone", "helicone" }

\* const [owner, repo] = ...: a missing element is undefined
Destructure(parts, i) == IF i <= Len(parts) THEN parts[i] ELSE Undefined

\* the AgentState runAgent starts from
InitialState(repoFullName) ==
    [repoOwner |-> Destructure(Split(repoFullName), 1),
     repoName |-> Destructure(Split(repoFullName), 2),
     repoContext |-> NullContext,
     contentType |-> Null,
     draft |-> NullText,
     step |-> "thought"]

\* state.repoContext?.field
Optional(ctx, field) ==
    IF ctx.isNull THEN [defined |-> FALSE]
    ELSE [defined |-> TRUE,
          value |-> IF field = "readme" THEN SliceText(ctx.readme, PromptReadmeLimit)
                    ELSE ctx[field]]

\* the instruction added at the start of the action step
CreatePrompt(st) ==
    Tpl("Create ${state.contentType} content for ${state.repoOwner}/${state.repoName}. Recent commits: ${recentCommits.join} README excerpt: ${readme.slice(0, 200)} Primary language: ${language} Use the appropriate tool to generate this content.",
        << st.contentType, st.repoOwner, st.repoName,
           Optional(st.repoContext, "recentCommits"),
           Optional(st.repoContext, "readme"),
           Optional(st.repoContext, "language") >>)

FormatPrompt ==
    Lit("Based on the tool result, create engaging tweet-length content (280 characters max). Make it compelling for developers.")

\* response.choices[0]?.message.tool_calls?.[0]
FirstToolCall(resp) ==
    IF resp.hasChoice /\ Len(resp.tool_calls) >= 1
    THEN resp.tool_calls[1] ELSE NoToolCall

\* mutant of NoFunctionCall: the type of the tool call is not looked at
NoFunctionCall_MissingTypeCheck(tc) == tc = NoToolCall

\* if (!toolCall || toolCall.type !== "function")
NoFunctionCall(tc) == tc = NoToolCall \/ tc.type # "function"

\* mutant of ThoughtStep: the next phase is observation
ThoughtStep_ToObservation(st, context) ==
    [st EXCEPT !.repoContext = context, !.step = "observation"]

\* mutant of ThoughtStep: the step also picks a content type
ThoughtStep_Classifies(st, context) ==
    [st EXCEPT !.repoContext = context, !.contentType = "changelog",
               !.step = "action"]

\* mutant of ThoughtStep: the phase is left as it was
ThoughtStep_Stay(st, context) == [st EXCEPT !.repoContext = context]

\* case "thought": return { ...state, repoContext: context, step: "action" }
ThoughtStep(st, context) ==
    [st EXCEPT !.repoContext = context, !.step = "action"]

\* mutant of ActionStep: the draft is stored and the phase left as it was
ActionStep_KeepPhase(st, content) == [st EXCEPT !.draft = content]

\* mutant of ActionStep: the returned state is built without the context
ActionStep_DropContext(st, content) ==
    [st EXCEPT !.draft = content, !.step = "done", !.repoContext = NullContext]

\* mutant of ActionStep: a null content becomes an empty draft
ActionStep_EmptyDraft(st, content) ==
    [st EXCEPT !.draft = IF content = Lit(Null) THEN Lit("") ELSE content,
               !.step = "done"]

\* case "action": return { ...state, draft: ..., step: "done" }
ActionStep(st, content) == [st EXCEPT !.draft = content, !.step = "done"]

\* case "observation": return { ...state, draft, step: "done" }
ObservationStep(st) ==
    [st EXCEPT
       !.draft = Tpl("[${state.contentType?.toUpperCase()}] Repository: ${state.repoOwner}/${state.repoName} Based on recent commits: ${recentCommits[0]} (Full generation coming Day 3 with tools)",
                     << st.contentType, st.repoOwner, st.repoName,
                        st.repoContext.isNull >>),
       !.step = "done"]

Envs == [TYPEFULLY_API_KEY : BOOLEAN, TYPEFULLY_SOCIAL_SET_ID : BOOLEAN]

\* mutant of ToolEntry: the entry does not carry the id of the call
ToolEntry_NoId(tc, result) == Entry("tool", result, NoCalls, NoId, tc.name)

\* memory.add("tool", result, { tool_call_id: toolCall.id, name: ... })
ToolEntry(tc, result) == Entry("tool", result, NoCalls, tc.id, tc.name)

\* mutant of AddAll: the two entries are added in the other order
AddAll_Reversed(msgs, entries) ==
    IF Len(entries) = 0 THEN msgs
    ELSE IF Len(entries) = 1 THEN MemoryAdd(msgs, entries[1])
    ELSE MemoryAdd(MemoryAdd(msgs, entries[2]), entries[1])

\* mutant of AddAll: every entry is added twice
AddAll_Twice(msgs, entries) ==
    IF Len(entries) = 0 THEN msgs
    ELSE IF Len(entries) = 1 THEN MemoryAdd(MemoryAdd(msgs, entries[1]), entries[1])
    ELSE MemoryAdd(MemoryAdd(MemoryAdd(MemoryAdd(msgs, entries[1]), entries[1]),
                             entries[2]), entries[2])

\* memory.add as executeStep performs it: the store and the history of adds
AddAll(msgs, entries) ==
    IF Len(entries) = 0 THEN msgs
    ELSE IF Len(entries) = 1 THEN MemoryAdd(msgs, entries[1])
    ELSE MemoryAdd(MemoryAdd(msgs, entries[1]), entries[2])

\* the run rejects: executeStep throws and runAgent does not catch
Fail(err) ==
    /\ outcome' = "failed"
    /\ error' = err
    /\ pc' = "end"

\* randomUUID(): the identifiers it may give
SessionIds == { "uuid-1", "uuid-2" }

NoSession == "<no session>"

\* state of the variables a specification does not drive
IdleRun ==
    /\ sessionId = NoSession
    /\ state = InitialState("helicone/helicone")
    /\ pc = "idle"
    /\ outcome = "running"
    /\ error = NoError
    /\ toolCall = NoToolCall
    /\ requests = << >>
    /\ responses = << >>
    /\ fetched = << >>

\* no array has been obtained from getAll
NoHeld == [taken |-> FALSE, alias |-> FALSE, value |-> << >>, atTake |-> << >>]

IdleHeld == held = NoHeld

\* no second call of runAgent is suspended
NoOther ==
    [id |-> 0, client |-> Null, messages |-> << >>, added |-> << >>,
     state |-> InitialState("helicone/helicone"), pc |-> "idle",
     outcome |-> "running", error |-> NoError, toolCall |-> NoToolCall,
     requests |-> << >>, responses |-> << >>, fetched |-> << >>,
     executed |-> << >>, sessionId |-> NoSession]

IdlePair == other = NoOther

MaxCallers == 3

MaxCalls == 4

Callers == 1..MaxCallers

\* getTypefullyMCP has not been called
IdleMcp ==
    /\ mcpLog = << >>
    /\ callers = [c \in Callers |-> "idle"]

IdleAux == IdleHeld /\ IdlePair /\ IdleMcp

\* runAgent up to the loop: the store holds the system prompt alone
RunInit ==
    /\ sessionId \in SessionIds
    /\ messages = MemoryNew(SystemPrompt)
    /\ added = << >>
    /\ \E r \in RepoInputs : state = InitialState(r)
    /\ pc = "loop"
    /\ outcome = "running"
    /\ error = NoError
    /\ toolCall = NoToolCall
    /\ requests = << >>
    /\ responses = << >>
    /\ fetched = << >>
    /\ executed = << >>
    /\ mcpClient = Null
    /\ env \in Envs
    /\ IdleAux

Init == RunInit

\* while (state.step !== "done") with case "thought": fetchRepoContext is called
BeginThought ==
    /\ pc = "loop" /\ state.step = "thought"
    /\ pc' = "fetch"
    /\ UNCHANGED <<messages, added, state, outcome, error, toolCall, requests,
                   responses, fetched, executed, mcpClient, env,
                   held, other, mcpLog, callers, sessionId>>

\* fetchRepoContext settles
FetchDone ==
    /\ pc = "fetch"
    /\ \E reply \in HostReplies :
         LET r == FetchRepoContext(reply)
         IN  /\ fetched' = Append(fetched, reply)
             /\ IF r.ok
                THEN /\ state' = ThoughtStep(state, r.context)
                     /\ pc' = "loop"
                     /\ UNCHANGED <<outcome, error>>
                ELSE /\ Fail("context fetch failed")
                     /\ UNCHANGED state
    /\ UNCHANGED <<messages, added, toolCall, requests, responses, executed,
                   mcpClient, env,
                   held, other, mcpLog, callers, sessionId>>

\* case "action" up to the first await: memory.add("user", ...) and the first
\* create call, with tools and tool_choice "required"
BeginAction ==
    /\ pc = "loop" /\ state.step = "action"
    /\ LET e == Entry("user", CreatePrompt(state), NoCalls, NoId, "")
       IN  /\ messages' = MemoryAdd(messages, e)
           /\ added' = Append(added, e)
    /\ requests' = Append(requests, Request(MemoryGetAll(messages'), TRUE, "required", Undefined))
    /\ pc' = "llm1"
    /\ UNCHANGED <<state, outcome, error, toolCall, responses, fetched, executed,
                   mcpClient, env,
                   held, other, mcpLog, callers, sessionId>>

\* the first create call resolves: the first tool call is picked, recorded in
\* the store, its arguments parsed and executeTool called
FirstResponse ==
    /\ pc = "llm1"
    /\ \E resp \in Responses :
         LET tc == FirstToolCall(resp)
             e == Entry("assistant", Lit(""), << tc >>, NoId, "")
         IN  /\ responses' = Append(responses, resp)
             /\ IF NoFunctionCall(tc)
                THEN /\ Fail("No tool was called")
                     /\ UNCHANGED <<messages, added, toolCall>>
                ELSE /\ messages' = MemoryAdd(messages, e)
                     /\ added' = Append(added, e)
                     /\ IF JSONParse(tc.arguments).ok
                        THEN /\ toolCall' = tc
                             /\ pc' = "tool"
                             /\ UNCHANGED <<outcome, error>>
                        ELSE /\ Fail("SyntaxError")
                             /\ UNCHANGED toolCall
    /\ UNCHANGED <<state, requests, fetched, executed, mcpClient, env,
                   held, other, mcpLog, callers, sessionId>>

\* a create call rejects (provider, rate limit, timeout)
EngineFails ==
    /\ pc \in { "llm1", "llm2" }
    /\ Fail("engine failed")
    /\ UNCHANGED <<messages, added, state, toolCall, requests, responses,
                   fetched, executed, mcpClient, env,
                   held, other, mcpLog, callers, sessionId>>

\* executeTool settles; on a result the tool entry and the formatting
\* instruction are added and the second create call is made, without tools
ToolDone ==
    /\ pc = "tool"
    /\ \E connectOk \in BOOLEAN, callOk \in BOOLEAN :
         LET args == JSONParse(toolCall.arguments).value
             r == ExecuteTool(toolCall.name, args, mcpClient, env, connectOk, callOk)
             e1 == ToolEntry(toolCall, r.value)
             e2 == Entry("user", FormatPrompt, NoCalls, NoId, "")
         IN  /\ executed' = Append(executed,
                    [version |-> "day5", name |-> toolCall.name, args |-> args,
                     result |-> r])
             /\ mcpClient' = r.client
             /\ IF r.kind = "throw"
                THEN /\ Fail(r.error)
                     /\ UNCHANGED <<messages, added, requests>>
                ELSE /\ messages' = AddAll(messages, << e1, e2 >>)
                     /\ added' = added \o << e1, e2 >>
                     /\ requests' = Append(requests,
                            Request(MemoryGetAll(messages'), FALSE, Undefined, Undefined))
                     /\ pc' = "llm2"
                     /\ UNCHANGED <<outcome, error>>
    /\ UNCHANGED <<state, toolCall, responses, fetched, env,
                   held, other, mcpLog, callers, sessionId>>

\* the second create call resolves: final.choices[0]!.message.content becomes
\* the draft, whatever else the response carries
SecondResponse ==
    /\ pc = "llm2"
    /\ \E resp \in Responses :
         /\ responses' = Append(responses, resp)
         /\ IF resp.hasChoice
            THEN /\ state' = ActionStep(state, resp.content)
                 /\ pc' = "loop"
                 /\ UNCHANGED <<outcome, error>>
            ELSE /\ Fail("TypeError")
                 /\ UNCHANGED state
    /\ UNCHANGED <<messages, added, toolCall, requests, fetched, executed,
                   mcpClient, env,
                   held, other, mcpLog, callers, sessionId>>

\* case "observation"
Observation ==
    /\ pc = "loop" /\ state.step = "observation"
    /\ state' = ObservationStep(state)
    /\ UNCHANGED <<messages, added, pc, outcome, error, toolCall, requests,
                   responses, fetched, executed, mcpClient, env,
                   held, other, mcpLog, callers, sessionId>>

\* the loop ends and runAgent returns state.draft
ReturnDraft ==
    /\ pc = "loop" /\ state.step = "done"
    /\ outcome' = "returned"
    /\ pc' = "end"
    /\ UNCHANGED <<messages, added, state, error, toolCall, requests, responses,
                   fetched, executed, mcpClient, env,
                   held, other, mcpLog, callers, sessionId>>

Next ==
    \/ BeginThought
    \/ FetchDone
    \/ BeginAction
    \/ FirstResponse
    \/ EngineFails
    \/ ToolDone
    \/ SecondResponse
    \/ ReturnDraft

Spec == Init /\ [][Next]_vars

-----------------------------------------------------------------------------
(* StepSpec: executeStep from every phase an AgentState can hold            *)

ContentTypes == { Null, "changelog" }

StepInit ==
    /\ sessionId = "uuid-1"
    /\ messages = MemoryNew(SystemPrompt)
    /\ added = << >>
    /\ \E r \in RepoInputs, s \in Steps, c \in ContentTypes :
         state = [InitialState(r) EXCEPT !.step = s, !.contentType = c]
    /\ pc = "loop"
    /\ outcome = "running"
    /\ error = NoError
    /\ toolCall = NoToolCall
    /\ requests = << >>
    /\ responses = << >>
    /\ fetched = << >>
    /\ executed = << >>
    /\ mcpClient = Null
    /\ env \in Envs
    /\ IdleAux

StepNext ==
    \/ BeginThought
    \/ FetchDone
    \/ BeginAction
    \/ FirstResponse
    \/ EngineFails
    \/ ToolDone
    \/ SecondResponse
    \/ Observation
    \/ ReturnDraft

StepSpec == StepInit /\ [][StepNext]_vars

-----------------------------------------------------------------------------
(* Day2Spec: the agent of Day 2, whose action step asks the engine to       *)
(* classify the content and whose observation step writes the draft         *)

\* the instruction of the classifying call
ClassifyPrompt(st) ==
    Tpl("Repository: ${state.repoOwner}/${state.repoName} Recent commits: ${recentCommits.join} What content type makes sense? Reply with ONE word: changelog, feature, or use-case",
        << st.repoOwner, st.repoName, Optional(st.repoContext, "recentCommits") >>)

\* what the engine may answer when asked to classify
ClassifyResponses ==
    { Response(TRUE, Lit(t), NoCalls) :
        t \in { " Changelog\n", "feature", "use-case", "Blog post" } }
    \cup { Response(TRUE, NullText, NoCalls), Response(FALSE, NullText, NoCalls) }

\* String.prototype.trim() followed by toLowerCase(), for the answers explored
TrimLower(text) ==
    CASE text = " Changelog\n" -> "changelog"
      [] text = "Blog post" -> "blog post"
      [] OTHER -> text

\* response.choices[0]?.message.content?.trim().toLowerCase() as any
ClassifiedAs(resp) ==
    IF ~resp.hasChoice \/ resp.content = NullText THEN Undefined
    ELSE TrimLower(resp.content.tpl)

\* case "action": return { ...state, contentType, step: "observation" }
ClassifyStep(st, contentType) ==
    [st EXCEPT !.contentType = contentType, !.step = "observation"]

\* runAgent up to the loop; the Day 2 agent has no conversation store
Day2Init ==
    /\ sessionId \in SessionIds
    /\ messages = << >>
    /\ added = << >>
    /\ \E r \in RepoInputs : state = InitialState(r)
    /\ pc = "loop"
    /\ outcome = "running"
    /\ error = NoError
    /\ toolCall = NoToolCall
    /\ requests = << >>
    /\ responses = << >>
    /\ fetched = << >>
    /\ executed = << >>
    /\ mcpClient = Null
    /\ env \in Envs
    /\ IdleAux

\* case "action" up to its await: the create call with the session headers
ClassifyBegin ==
    /\ pc = "loop" /\ state.step = "action"
    /\ requests' = Append(requests,
           Request(<< Entry("user", ClassifyPrompt(state), NoCalls, NoId, "") >>,
                   FALSE, Undefined, sessionId))
    /\ pc' = "llm1"
    /\ UNCHANGED <<messages, added, state, outcome, error, toolCall, responses,
                   fetched, executed, mcpClient, env,
                   held, other, mcpLog, callers, sessionId>>

\* the create call resolves: the answer becomes the content type
ClassifyResponse ==
    /\ pc = "llm1"
    /\ \E resp \in ClassifyResponses :
         /\ responses' = Append(responses, resp)
         /\ state' = ClassifyStep(state, ClassifiedAs(resp))
    /\ pc' = "loop"
    /\ UNCHANGED <<messages, added, outcome, error, toolCall, requests,
                   fetched, executed, mcpClient, env,
                   held, other, mcpLog, callers, sessionId>>

Day2Next ==
    \/ BeginThought
    \/ FetchDone
    \/ ClassifyBegin
    \/ ClassifyResponse
    \/ EngineFails
    \/ Observation
    \/ ReturnDraft

Day2Spec == Day2Init /\ [][Day2Next]_vars

-----------------------------------------------------------------------------
(* MemorySpec: a store driven by arbitrary add calls                        *)

AddInputs ==
    { Entry("user", Lit("u"), NoCalls, NoId, ""),
      Entry("assistant", Lit(""),
            << ToolCallOf("call_1", "function", "generate_changelog", ChangelogPayload) >>,
            NoId, ""),
      Entry("tool", Lit("r"), NoCalls, "call_1", "generate_changelog") }

MemInit ==
    /\ messages = MemoryNew(SystemPrompt)
    /\ added = << >>
    /\ IdleRun
    /\ executed = << >>
    /\ mcpClient = Null
    /\ env = [TYPEFULLY_API_KEY |-> TRUE, TYPEFULLY_SOCIAL_SET_ID |-> TRUE]
    /\ IdleAux

\* memory.add(role, content, extra)
MemAdd ==
    /\ Len(added) < MaxAdds
    /\ \E e \in AddInputs :
         /\ messages' = MemoryAdd(messages, e)
         /\ added' = Append(added, e)
    /\ UNCHANGED <<state, pc, outcome, error, toolCall, requests, responses,
                   fetched, executed, mcpClient, env,
                   held, other, mcpLog, callers, sessionId>>

MemNext == MemAdd

MemorySpec == MemInit /\ [][MemNext]_vars

-----------------------------------------------------------------------------
(* AliasSpec: a caller keeps the array getAll returned while adds go on     *)

\* the entries added while the array is held
HeldInputs ==
    { e \in AddInputs : e.role \in { "user", "assistant" } }

\* what `add` does to the array a caller holds: push() changes the array
\* this.messages refers to, in place; past 11 entries this.messages is bound
\* to a new array and the held one, with the pushed entry, is left behind
HeldAfterAdd(h, msgs, entry) ==
    LET pushed == Append(msgs, entry)
    IN  IF ~h.alias THEN h
        ELSE [h EXCEPT !.value = pushed, !.alias = ~(Len(pushed) > WindowCap)]

AliasInit ==
    /\ messages = MemoryNew(SystemPrompt)
    /\ added = << >>
    /\ IdleRun
    /\ executed = << >>
    /\ mcpClient = Null
    /\ env = [TYPEFULLY_API_KEY |-> TRUE, TYPEFULLY_SOCIAL_SET_ID |-> TRUE]
    /\ IdleHeld /\ IdlePair /\ IdleMcp

\* const a = memory.getAll(): `a` is this.messages itself
GetAll ==
    /\ ~held.taken
    /\ held' = [taken |-> TRUE, alias |-> TRUE,
                value |-> MemoryGetAll(messages), atTake |-> MemoryGetAll(messages)]
    /\ UNCHANGED <<messages, added, state, pc, outcome, error, toolCall, requests,
                   responses, fetched, executed, mcpClient, env, other, mcpLog,
                   callers, sessionId>>

\* memory.add(role, content, extra) while `a` may be held
AliasAdd ==
    /\ Len(added) < MaxAdds
    /\ \E e \in HeldInputs :
         /\ messages' = MemoryAdd(messages, e)
         /\ added' = Append(added, e)
         /\ held' = HeldAfterAdd(held, messages, e)
    /\ UNCHANGED <<state, pc, outcome, error, toolCall, requests, responses,
                   fetched, executed, mcpClient, env, other, mcpLog, callers, sessionId>>

AliasNext ==
    \/ GetAll
    \/ AliasAdd

AliasSpec == AliasInit /\ [][AliasNext]_vars

-----------------------------------------------------------------------------
(* RoleSpec: add called with every role its parameter type admits           *)

MaxRoleAdds == 4

\* role: ChatCompletionMessageParam["role"]; one entry for each role
RoleInputs ==
    AddInputs \cup { Entry("system", Lit("s"), NoCalls, NoId, "") }

RoleInit ==
    /\ messages = MemoryNew(SystemPrompt)
    /\ added = << >>
    /\ IdleRun
    /\ executed = << >>
    /\ mcpClient = Null
    /\ env = [TYPEFULLY_API_KEY |-> TRUE, TYPEFULLY_SOCIAL_SET_ID |-> TRUE]
    /\ IdleAux

\* memory.add(role, content, extra) for any role
RoleAdd ==
    /\ Len(added) < MaxRoleAdds
    /\ \E e \in RoleInputs :
         /\ messages' = MemoryAdd(messages, e)
         /\ added' = Append(added, e)
    /\ UNCHANGED <<state, pc, outcome, error, toolCall, requests, responses,
                   fetched, executed, mcpClient, env,
                   held, other, mcpLog, callers, sessionId>>

RoleNext == RoleAdd

RoleSpec == RoleInit /\ [][RoleNext]_vars

-----------------------------------------------------------------------------
(* ToolSpec: executeTool invoked with arbitrary names and arguments         *)

InvokedNames == RequestedNames \cup { "Analyze_Codebase" }

ToolInit ==
    /\ messages = MemoryNew(SystemPrompt)
    /\ added = << >>
    /\ IdleRun
    /\ executed = << >>
    /\ mcpClient = Null
    /\ env \in Envs
    /\ IdleAux

\* a process loads one revision of src/tools.ts: every invocation so far ran it
Loaded(version) == \A i \in 1..Len(executed) : executed[i].version = version

\* await executeTool(name, args) with src/tools.ts as of Day 5
ToolInvoke ==
    /\ Len(executed) < MaxInvocations
    /\ Loaded("day5")
    /\ \E name \in InvokedNames, args \in ArgValues,
          connectOk \in BOOLEAN, callOk \in BOOLEAN :
         LET r == ExecuteTool(name, args, mcpClient, env, connectOk, callOk)
         IN  /\ executed' = Append(executed,
                    [version |-> "day5", name |-> name, args |-> args, result |-> r])
             /\ mcpClient' = r.client
    /\ UNCHANGED <<messages, added, state, pc, outcome, error, toolCall,
                   requests, responses, fetched, env,
                   held, other, mcpLog, callers, sessionId>>

\* await executeTool(name, args) with src/tools.ts as of Day 3
ToolInvokeDay3 ==
    /\ Len(executed) < MaxInvocations
    /\ Loaded("day3")
    /\ \E name \in InvokedNames, args \in ArgValues :
         LET r == ExecuteToolDay3(name, args, mcpClient)
         IN  /\ executed' = Append(executed,
                    [version |-> "day3", name |-> name, args |-> args, result |-> r])
             /\ mcpClient' = r.client
    /\ UNCHANGED <<messages, added, state, pc, outcome, error, toolCall,
                   requests, responses, fetched, env,
                   held, other, mcpLog, callers, sessionId>>

ToolNext == ToolInvoke \/ ToolInvokeDay3

ToolSpec == ToolInit /\ [][ToolNext]_vars

-----------------------------------------------------------------------------
(* McpSpec: calls of getTypefullyMCP, overlapping at `await client.connect` *)

\* how many times the event is in the log
Count(log, event) == Cardinality({ i \in 1..Len(log) : log[i] = event })

\* mutant of GetTypefullyMCPEnter: `client` is assigned once connect resolves
GetTypefullyMCPEnter_AssignAfterConnect(client, environment) ==
    IF client # Null
    THEN [kind |-> "returned", client |-> client, events |-> << >>]
    ELSE IF ~environment.TYPEFULLY_API_KEY
    THEN [kind |-> "threw", client |-> client, events |-> << >>]
    ELSE [kind |-> "awaiting", client |-> client,
          events |-> << "new Client", "connect" >>]

\* getTypefullyMCP up to its await: `client` is returned when set; otherwise
\* the key is checked, `client = new Client(...)` is assigned and connect is
\* called on it
GetTypefullyMCPEnter(client, environment) ==
    IF client # Null
    THEN [kind |-> "returned", client |-> client, events |-> << >>]
    ELSE IF ~environment.TYPEFULLY_API_KEY
    THEN [kind |-> "threw", client |-> client, events |-> << >>]
    ELSE [kind |-> "awaiting", client |-> "unconnected",
          events |-> << "new Client", "connect" >>]

McpInit ==
    /\ messages = MemoryNew(SystemPrompt)
    /\ added = << >>
    /\ IdleRun
    /\ executed = << >>
    /\ mcpClient = Null
    /\ env \in Envs
    /\ IdleAux

\* `return client`: the log entry of a return, with the client's condition
Returned(client) == "returned " \o client

\* a caller that is not inside getTypefullyMCP calls it; the call runs to its
\* return, its throw or its await
McpCall ==
    /\ Count(mcpLog, "call") < MaxCalls
    /\ \E c \in Callers :
         /\ callers[c] # "awaiting"
         /\ LET r == GetTypefullyMCPEnter(mcpClient, env)
            IN  /\ mcpClient' = r.client
                /\ mcpLog' = mcpLog \o << "call" >> \o r.events
                             \o (IF r.kind = "returned"
                                 THEN << Returned(r.client) >> ELSE << >>)
                /\ callers' = [callers EXCEPT ![c] = r.kind]
    /\ UNCHANGED <<messages, added, state, pc, outcome, error, toolCall, requests,
                   responses, fetched, executed, env, held, other, sessionId>>

\* client.connect(transport) settles for the call that awaits it
McpConnectSettled ==
    /\ \E c \in Callers, connectOk \in BOOLEAN :
         /\ callers[c] = "awaiting"
         /\ callers' = [callers EXCEPT ![c] = IF connectOk THEN "returned" ELSE "threw"]
         /\ mcpClient' = IF connectOk THEN "connected" ELSE mcpClient
         /\ mcpLog' = IF connectOk THEN Append(mcpLog, Returned("connected"))
                       ELSE mcpLog
    /\ UNCHANGED <<messages, added, state, pc, outcome, error, toolCall, requests,
                   responses, fetched, executed, env, held, other, sessionId>>

McpNext ==
    \/ McpCall
    \/ McpConnectSettled

McpSpec == McpInit /\ [][McpNext]_vars

-----------------------------------------------------------------------------
(* PairSpec: two calls of runAgent in one process, interleaved at awaits    *)

\* the locals of the runAgent call that is running
Locals ==
    [messages |-> messages, added |-> added, state |-> state, pc |-> pc,
     outcome |-> outcome, error |-> error, toolCall |-> toolCall,
     requests |-> requests, responses |-> responses, fetched |-> fetched,
     executed |-> executed, sessionId |-> sessionId]

\* the locals kept for a suspended call
LocalsOf(saved) ==
    [messages |-> saved.messages, added |-> saved.added, state |-> saved.state,
     pc |-> saved.pc, outcome |-> saved.outcome, error |-> saved.error,
     toolCall |-> saved.toolCall, requests |-> saved.requests,
     responses |-> saved.responses, fetched |-> saved.fetched,
     executed |-> saved.executed, sessionId |-> saved.sessionId]

\* the host and the engine as the two calls meet them
PairReplies ==
    { r \in HostReplies :
        /\ r.repoOk /\ r.readmeOk /\ r.commitsOk
        /\ Len(r.commits) = 2
        /\ r.language = "Go" }

PairResponses ==
    { Response(TRUE, NullText,
               << ToolCallOf("call_1", "function", "create_typefully_draft", DraftPayload) >>),
      Response(TRUE, NullText,
               << ToolCallOf("call_1", "function", "generate_changelog", ChangelogPayload) >>),
      Response(TRUE, FinalText, NoCalls) }

PairScope ==
    /\ \A i \in 1..Len(fetched) : fetched[i] \in PairReplies
    /\ \A i \in 1..Len(responses) : responses[i] \in PairResponses

\* mutant of StoreOnResume: one Memory at module level serves every call
StoreOnResume_ModuleLevel(own, current) == current

\* `const memory = new Memory(...)` is a local of runAgent: the call that
\* resumes finds the store it created, whatever the other call's store holds
StoreOnResume(own, current) == own

PairInit ==
    /\ messages = MemoryNew(SystemPrompt)
    /\ added = << >>
    /\ \E r1 \in RepoInputs, r2 \in RepoInputs :
         /\ state = InitialState(r1)
         /\ other = [NoOther EXCEPT !.id = 2,
                                    !.messages = MemoryNew(SystemPrompt),
                                    !.state = InitialState(r2),
                                    !.pc = "loop",
                                    !.sessionId = "uuid-2"]
    /\ sessionId = "uuid-1"
    /\ pc = "loop"
    /\ outcome = "running"
    /\ error = NoError
    /\ toolCall = NoToolCall
    /\ requests = << >>
    /\ responses = << >>
    /\ fetched = << >>
    /\ executed = << >>
    /\ mcpClient = Null
    /\ env = [TYPEFULLY_API_KEY |-> TRUE, TYPEFULLY_SOCIAL_SET_ID |-> TRUE]
    /\ IdleHeld /\ IdleMcp

\* the running call takes a step of runAgent
PairRun == Next /\ PairScope'

\* the running call is suspended at an await and the other call resumes
Switch ==
    /\ messages' = StoreOnResume(other.messages, messages)
    /\ added' = other.added
    /\ state' = other.state
    /\ pc' = other.pc
    /\ outcome' = other.outcome
    /\ error' = other.error
    /\ toolCall' = other.toolCall
    /\ requests' = other.requests
    /\ responses' = other.responses
    /\ fetched' = other.fetched
    /\ executed' = other.executed
    /\ sessionId' = other.sessionId
    /\ other' = [id |-> 3 - other.id, client |-> mcpClient,
                 messages |-> messages, added |-> added, state |-> state,
                 pc |-> pc, outcome |-> outcome, error |-> error,
                 toolCall |-> toolCall, requests |-> requests,
                 responses |-> responses, fetched |-> fetched,
                 executed |-> executed, sessionId |-> sessionId]
    /\ UNCHANGED <<mcpClient, env, held, mcpLog, callers>>

PairNext ==
    \/ PairRun
    \/ Switch

PairSpec == PairInit /\ [][PairNext]_vars

-----------------------------------------------------------------------------
(* Properties                                                               *)

SystemEntry == MemoryNew(SystemPrompt)[1]

\* C1 (MemorySpec): after every add the store holds at most 11 entries and
\* entry[0] is still the system entry the constructor created.
C1_BoundedStore ==
    /\ Len(messages) >= 1
    /\ Len(messages) <= WindowCap
    /\ messages[1] = SystemEntry

\* C1 witness: adds went past the cap and the store is full
C1_Witness ==
    /\ Len(added) > WindowCap
    /\ Len(messages) = WindowCap
    /\ messages[1] = SystemEntry

\* C2 (MemorySpec): once an add has pushed the store past 11 entries, the
\* store is exactly entry[0] followed by the 10 most recently added entries,
\* in the order they were added.
C2_EvictionKeepsMostRecent ==
    Len(added) > WindowTail =>
        messages = << SystemEntry >> \o SubSeq(added, Len(added) - WindowTail + 1, Len(added))

\* C2 witness: two entries were evicted and the oldest retained entry differs
\* from both
C2_Witness ==
    /\ Len(added) = WindowTail + 2
    /\ messages[2] = added[3]
    /\ added[3] # added[1]
    /\ added[3] # added[2]
    /\ messages[WindowCap] = added[WindowTail + 2]

\* the response asks for tools / is a final answer
HasToolRequests(resp) == resp.hasChoice /\ Len(resp.tool_calls) > 0
IsFinal(resp) == resp.hasChoice /\ Len(resp.tool_calls) = 0

\* C3 (Spec), as claimed: when the engine asked for tools on calls 1..N-1 and
\* gives a final answer on call N, the run does not fail, makes exactly N
\* calls and returns that answer as the draft; it does not return before.
C3_TerminatesOnNthCall ==
    LET n == Len(responses)
    IN  (n >= 1 /\ \A i \in 1..(n - 1) : HasToolRequests(responses[i])) =>
          IF IsFinal(responses[n])
          THEN /\ outcome # "failed"
               /\ Len(requests) = n
               /\ outcome = "returned" => state.draft = responses[n].content
          ELSE outcome # "returned"

\* ids of the tool entries of a conversation, in order
ToolResultIds(msgs) ==
    LET toolEntries == SelectSeq(msgs, LAMBDA m : m.role = "tool")
    IN  [i \in 1..Len(toolEntries) |-> toolEntries[i].tool_call_id]

CallIds(calls) == [i \in 1..Len(calls) |-> calls[i].id]

\* C4 (Spec), as claimed: when a response carries several tool requests, by
\* the next engine call an assistant entry carries them all, each has been
\* executed in the order given and has its tool-result entry, in that order.
C4_AllRequestsExecutedInOrder ==
    \A k \in 2..Len(requests) :
        LET calls == responses[k - 1].tool_calls
            sent == requests[k].messages
        IN  Len(calls) > 1 =>
              /\ \E a \in 1..Len(sent) :
                    /\ sent[a].role = "assistant"
                    /\ sent[a].tool_calls = calls
                    /\ ToolResultIds(SubSeq(sent, a + 1, Len(sent))) = CallIds(calls)
              /\ [i \in 1..Len(executed) |-> executed[i].name]
                    = [i \in 1..Len(calls) |-> calls[i].name]

\* C5 (StepSpec): the loop exits only in phase done; whenever executeStep
\* hands a state back to the loop its phase differs from the one it was
\* entered with; and a running run in a phase other than done can always
\* take a step.
C5_PhasesProgress ==
    /\ [](outcome = "returned" => state.step = "done")
    /\ [][pc' = "loop" => state'.step # state.step]_vars
    /\ []((outcome = "running" /\ state.step # "done") => ENABLED <<StepNext>>_vars)

\* C5 witness: a run entered at thought went through action and left the
\* loop in done
C5_Witness ==
    /\ outcome = "returned"
    /\ state.step = "done"
    /\ Len(fetched) = 1
    /\ Len(responses) = 2

\* the name is asked for as a function tool and is not in the catalog
UnknownRequest(tc) == tc.type = "function" /\ tc.name \notin CatalogNames(tools)

\* C6 (Spec), as claimed: when a response asks for a tool name absent from
\* the catalog, the run fails with the unknown-tool error (executeTool may
\* still be pending), the draft stays null and no further engine call is made.
C6_UnknownToolAborts ==
    \A k \in 1..Len(responses) :
      \A i \in 1..Len(responses[k].tool_calls) :
        LET tc == responses[k].tool_calls[i]
        IN  (responses[k].hasChoice /\ UnknownRequest(tc)) =>
              /\ \/ pc = "tool"
                 \/ outcome = "failed" /\ error = "Unknown tool: " \o tc.name
              /\ state.draft = NullText
              /\ Len(requests) = k

\* C7 (Spec), as claimed: when the argument payload of the tool request is
\* not valid JSON the run does not abort on it, and a tool-result entry for
\* that request is in the store.
C7_MalformedArgumentsRecovered ==
    \A k \in 1..Len(responses) :
        LET tc == FirstToolCall(responses[k])
        IN  (tc.type = "function" /\ ~JSONParse(tc.arguments).ok) =>
              /\ error # "SyntaxError"
              /\ \E j \in 1..Len(messages) :
                    /\ messages[j].role = "tool"
                    /\ messages[j].tool_call_id = tc.id

\* the repository-metadata request or the commit-list request failed
ContextFetchFails(reply) == ~reply.repoOk \/ ~reply.commitsOk

\* C8 (Spec): when the context fetch fails the run fails, no Decision Engine
\* call has been or is ever made, and the store holds the configuration
\* entry alone.
C8_FetchFailureAborts ==
    (Len(fetched) = 1 /\ ContextFetchFails(fetched[1])) =>
        /\ outcome = "failed"
        /\ pc = "end"
        /\ requests = << >>
        /\ responses = << >>
        /\ messages = << SystemEntry >>

\* C8 witness: the fetch failed and the run has failed
C8_Witness ==
    /\ Len(fetched) = 1
    /\ ContextFetchFails(fetched[1])
    /\ outcome = "failed"

CatalogOf(version) == IF version = "day5" THEN tools ELSE toolsDay3

ToolNamed(catalog, name) ==
    CHOOSE t \in { catalog[i] : i \in 1..Len(catalog) } : t.name = name

\* C9 (ToolSpec): executeTool invoked with a name outside the catalog throws
\* the unknown-tool error: it runs no handler and returns nothing.
C9_UnknownNameThrows ==
    \A i \in 1..Len(executed) :
        LET x == executed[i]
        IN  x.name \notin CatalogNames(CatalogOf(x.version)) =>
              /\ x.result.kind = "throw"
              /\ x.result.error = "Unknown tool: " \o x.name
              /\ x.result.handler = NoHandler

\* C9 witness: a name outside the catalog was invoked, also one that differs
\* from a catalog name by case only
C9_Witness ==
    /\ Len(executed) = 2
    /\ executed[1].name = "nonexistent_tool"
    /\ executed[2].name = "Analyze_Codebase"
    /\ executed[2].result.kind = "throw"

\* invocation i names a catalog tool and its arguments satisfy its schema
ValidInvocation(x) ==
    /\ x.name \in CatalogNames(CatalogOf(x.version))
    /\ SchemaValid(ToolNamed(CatalogOf(x.version), x.name), x.args)

\* C10 (ToolSpec): executeTool invoked with a catalog name and schema-valid
\* arguments runs that tool's own handler, the same on every invocation, and
\* does not end in the unknown-tool error.
C10_CatalogNameRoutesToHandler ==
    /\ \A i \in 1..Len(executed) :
          LET x == executed[i]
          IN  ValidInvocation(x) =>
                /\ x.result.handler = x.name
                /\ x.result.error # "Unknown tool: " \o x.name
    /\ \A i, j \in 1..Len(executed) :
          (ValidInvocation(executed[i]) /\ ValidInvocation(executed[j])
             /\ executed[i].name = executed[j].name) =>
                executed[i].result.handler = executed[j].result.handler

\* C10 witness: the catalog's last tool was invoked twice with valid
\* arguments and its handler ran both times
C10_Witness ==
    /\ Len(executed) = 2
    /\ \A i \in 1..2 :
          /\ executed[i].version = "day5"
          /\ executed[i].name = "create_typefully_draft"
          /\ ValidInvocation(executed[i])
          /\ executed[i].result.handler = "create_typefully_draft"
    /\ executed[1].result.kind = "throw"
    /\ executed[2].result.kind = "return"

\* the response carries no function tool call
NoFunctionToolCallIn(resp) ==
    \/ ~resp.hasChoice
    \/ \A i \in 1..Len(resp.tool_calls) : resp.tool_calls[i].type # "function"

\* the store holds an entry of one of the roles
HoldsRole(msgs, roles) == \E j \in 1..Len(msgs) : msgs[j].role \in roles

\* C11 (Spec): when the engine answers the tool-required call without a
\* function tool call, the run fails with "No tool was called"; no tool is
\* executed, no second engine call is made, no assistant or tool-result
\* entry is in the store and the draft is null.
C11_NoToolRequestedAborts ==
    (Len(responses) >= 1 /\ NoFunctionToolCallIn(responses[1])) =>
        /\ outcome = "failed"
        /\ error = "No tool was called"
        /\ executed = << >>
        /\ Len(requests) = 1
        /\ Len(responses) = 1
        /\ ~HoldsRole(messages, { "assistant", "tool" })
        /\ state.draft = NullText

\* C11 witness: the engine answered with a tool call that is not a function
\* call and the run has failed
C11_Witness ==
    /\ Len(responses) = 1
    /\ Len(responses[1].tool_calls) = 1
    /\ responses[1].tool_calls[1].type = "custom"
    /\ outcome = "failed"

\* C12 (Spec): the draft is null unless the phase is done, and a run that
\* has failed holds no draft.
C12_DraftAllOrNothing ==
    /\ state.step # "done" => state.draft = NullText
    /\ outcome = "failed" => (state.draft = NullText /\ state.step # "done")

\* C12 witness: the run failed at its last await, after the tool had run
C12_Witness ==
    /\ outcome = "failed"
    /\ Len(responses) = 2
    /\ Len(executed) = 1
    /\ state.draft = NullText

\* C15 (Spec), as claimed: while every response of the engine asks for a
\* tool, the run does not reach done and does not return.
C15_NeverDoneWhileToolsRequested ==
    (Len(responses) >= 1 /\ \A i \in 1..Len(responses) : HasToolRequests(responses[i])) =>
        /\ state.step # "done"
        /\ outcome # "returned"

\* the tool's underlying operation (connect or callTool) failed
OperationFailed(x) ==
    /\ x.result.kind = "throw"
    /\ x.result.error \in { "callTool failed", "connect failed" }

\* C16 (Spec), as claimed: when a handler's underlying operation fails, the
\* run does not fail; the failure is in the store as a tool-result entry of
\* that request.
C16_ToolFailureFedBack ==
    \A i \in 1..Len(executed) :
        OperationFailed(executed[i]) =>
            /\ outcome # "failed"
            /\ \E j \in 1..Len(messages) :
                  /\ messages[j].role = "tool"
                  /\ messages[j].tool_call_id = toolCall.id

\* TYPEFULLY_API_KEY or TYPEFULLY_SOCIAL_SET_ID is unset
ConfigurationMissing ==
    ~env.TYPEFULLY_API_KEY \/ ~env.TYPEFULLY_SOCIAL_SET_ID

C20_ContextImmutable ==
    [][ /\ state.repoContext # NullContext => state'.repoContext = state.repoContext
        /\ state'.repoOwner = state.repoOwner
        /\ state'.repoName = state.repoName ]_vars

\* C20 witness: the action step has returned and the context is in place
C20_Witness ==
    /\ state.step = "done"
    /\ state.draft = FinalText
    /\ state.repoContext # NullContext

\* C13 (AliasSpec), as claimed: a sequence obtained from getAll is the same
\* after every later add as it was when it was obtained.
C13_GetAllByValue == held.taken => held.value = held.atTake

\* the entry at position i of the adds opens a round: an assistant entry with
\* tool calls, followed to the end by at least ten tool entries
RoundAt(i) ==
    /\ added[i].role = "assistant"
    /\ added[i].tool_calls # NoCalls
    /\ Len(added) - i >= WindowTail
    /\ \A j \in (i + 1)..Len(added) : added[j].role = "tool"

\* a tool entry whose tool_call_id is in no retained assistant entry
Orphan(msgs, j) ==
    /\ msgs[j].role = "tool"
    /\ ~\E k \in 1..Len(msgs) :
          /\ msgs[k].role = "assistant"
          /\ \E c \in 1..Len(msgs[k].tool_calls) :
                msgs[k].tool_calls[c].id = msgs[j].tool_call_id

\* C14 (MemorySpec): after an assistant entry with tool calls followed by
\* ten or more tool entries (a round of more than ten entries), the store
\* holds no assistant entry and holds a tool entry whose tool_call_id matches
\* no retained tool call.
C14_LongRoundOrphansResults ==
    (\E i \in 1..Len(added) : RoundAt(i)) =>
        /\ ~HoldsRole(messages, { "assistant" })
        /\ \E j \in 1..Len(messages) : Orphan(messages, j)

\* C14 witness: a round of eleven entries has gone into a fresh store
C14_Witness ==
    /\ Len(added) = WindowTail + 1
    /\ RoundAt(1)
    /\ Len(messages) = WindowCap
    /\ Orphan(messages, 2)

\* C19 (McpSpec): over any calls of getTypefullyMCP, overlapping or not, at
\* most one client is created and connect is called at most once.
C19_OneClientOneConnect ==
    /\ Count(mcpLog, "new Client") <= 1
    /\ Count(mcpLog, "connect") <= 1

\* C19 witness: a call returned the client while the call that created it
\* was still awaiting connect
C19_Witness ==
    \E a \in Callers, b \in Callers :
        /\ callers[a] = "awaiting"
        /\ callers[b] = "returned"
        /\ mcpClient = "unconnected"
        /\ Count(mcpLog, "call") >= 2
        /\ Count(mcpLog, "connect") = 1

C22_IdentityNonEmpty ==
    /\ state.repoOwner \notin { "", Undefined }
    /\ state.repoName \notin { "", Undefined }

\* C25 (Spec), as claimed: the first engine call is made with tool_choice
\* "required" and every later one without a forced choice, each call being
\* given the conversation and the tool catalog.
C25_ToolModes ==
    \A i \in 1..Len(requests) :
        /\ requests[i].messages # << >>
        /\ requests[i].tools
        /\ IF i = 1 THEN requests[i].tool_choice = "required"
           ELSE requests[i].tool_choice \in { Undefined, "auto" }

\* C26 (Spec): when the second engine response has a choice with null
\* content, the run does not fail; the phase becomes done with a null draft
\* and runAgent returns it.
C26_NullDraftReturned ==
    (Len(responses) = 2 /\ responses[2].hasChoice /\ responses[2].content = NullText) =>
        /\ outcome # "failed"
        /\ error = NoError
        /\ state.step = "done"
        /\ state.draft = NullText

\* C26 witness: runAgent has returned a null draft
C26_Witness ==
    /\ outcome = "returned"
    /\ Len(responses) = 2
    /\ responses[2].content = NullText
    /\ state.draft = NullText

Answered(msgs) ==
    \A j \in 1..Len(msgs) :
        msgs[j].role = "assistant" =>
            \A c \in 1..Len(msgs[j].tool_calls) :
                LET answers == { i \in 1..Len(msgs) :
                                   /\ msgs[i].role = "tool"
                                   /\ msgs[i].tool_call_id = msgs[j].tool_calls[c].id }
                IN  /\ Cardinality(answers) = 1
                    /\ \A i \in answers : i > j

\* C29 (Spec): in the conversation given to every engine call, each recorded
\* tool call has exactly one tool entry with its id, after the assistant
\* entry that records it.
C29_RecordedCallsAnswered ==
    \A k \in 1..Len(requests) : Answered(requests[k].messages)

\* C29 witness: the second engine call was given an assistant entry with a
\* tool call
C29_Witness ==
    /\ Len(requests) = 2
    /\ \E j \in 1..Len(requests[2].messages) :
          /\ requests[2].messages[j].role = "assistant"
          /\ Len(requests[2].messages[j].tool_calls) = 1

C23_SnapshotShape ==
    (fetched # << >> /\ ~state.repoContext.isNull) =>
        LET reply == fetched[Len(fetched)]
            ctx == state.repoContext
        IN  /\ ctx.readme.len <= ReadmeLimit
            /\ ctx.readme.text = IF reply.readmeOk THEN reply.readme.text
                                 ELSE NoReadme.text
            /\ Len(ctx.recentCommits) <= PerPage
            /\ Len(ctx.recentCommits) <= Len(reply.commits)
            /\ \A i \in 1..Len(ctx.recentCommits) :
                  ctx.recentCommits[i] = reply.commits[i]
            /\ ctx.language = IF reply.language = Null THEN "Unknown"
                              ELSE reply.language

\* C23 witness: a long readme was cut, a full page of commits was listed and
\* the host reported no language
C23_Witness ==
    /\ fetched # << >>
    /\ ~state.repoContext.isNull
    /\ fetched[Len(fetched)].readmeOk
    /\ fetched[Len(fetched)].readme.len > ReadmeLimit
    /\ state.repoContext.readme.len = ReadmeLimit
    /\ Len(state.repoContext.recentCommits) = PerPage
    /\ state.repoContext.language = "Unknown"

\* C24 (RoleSpec), as claimed: after any adds the store holds one system
\* entry, at index 0, and every other entry has role user, assistant or tool.
C24_OneLeadingSystemEntry ==
    /\ messages[1].role = "system"
    /\ \A j \in 2..Len(messages) : messages[j].role \in { "user", "assistant", "tool" }

\* the closed set of AgentState.contentType
ContentTypeLabels == { "changelog", "feature", "use-case" }

\* C21 (Day2Spec), as claimed: contentType is null or one of changelog,
\* feature, use-case, whatever the engine answers when asked to classify.
C21_ContentTypeClosed == state.contentType \in { Null } \cup ContentTypeLabels

\* C27 (Spec), as claimed: every engine call of a run carries the session
\* identifier generated at the start of runAgent.
C27_SameSessionId ==
    \A i \in 1..Len(requests) : requests[i].session = sessionId

C32_ContentTypeNeverSet ==
    /\ state.contentType = Null
    /\ \A i \in 1..Len(requests) :
          /\ requests[i].messages[2].role = "user"
          /\ requests[i].messages[2].content.parts[1] = Null

\* C32 witness: the drafting instruction has been sent to the engine
C32_Witness ==
    /\ pc = "llm1"
    /\ Len(requests) = 1
    /\ requests[1].messages[2].content.parts[1] = Null
    /\ ~state.repoContext.isNull

\* C33 (McpSpec), as claimed: every client getTypefullyMCP returned had
\* completed connect successfully when it was returned.
C33_ReturnedClientsConnected ==
    \A i \in 1..Len(mcpLog) : mcpLog[i] # Returned("unconnected")

\* C34 (ToolSpec), as claimed: when executeTool is invoked with a catalog
\* name and schema-valid arguments, every argument field the handler puts in
\* its result is supplied (none is undefined).
C34_HandlersReadDeclaredFields ==
    \A i \in 1..Len(executed) :
        LET x == executed[i]
        IN  (ValidInvocation(x) /\ x.result.kind = "return") =>
                \A k \in 1..Len(x.result.value.parts) :
                    x.result.value.parts[k] # Undefined

\* C35 (Spec): when the README request alone fails, the fetch succeeds with
\* "No README" as the readme; when the repository or the commit-list request
\* fails, the fetch fails and the run with it.
C35_ReadmeFailureRecovered ==
    fetched # << >> =>
        LET reply == fetched[Len(fetched)]
        IN  /\ (reply.repoOk /\ reply.commitsOk) =>
                 /\ ~state.repoContext.isNull
                 /\ error # "context fetch failed"
                 /\ ~reply.readmeOk => state.repoContext.readme = NoReadme
            /\ (~reply.repoOk \/ ~reply.commitsOk) =>
                 /\ state.repoContext.isNull
                 /\ outcome = "failed"
                 /\ error = "context fetch failed"

\* C35 witness: the README request alone failed and the run went on with
\* "No README"
C35_Witness ==
    /\ fetched # << >>
    /\ ~fetched[1].readmeOk /\ fetched[1].repoOk /\ fetched[1].commitsOk
    /\ state.repoContext.readme = NoReadme
    /\ state.step = "action"

====
